---- MODULE Spec2Model ----
(***************************************************************************)
(* Model of the Zwila class (src/src/zwila.js): folders of blobs in one    *)
(* Azure Storage container, each folder described by a TOML-frontmatter    *)
(* markdown blob <slug>/_zwila.md.                                         *)
(*                                                                         *)
(* Text is modelled character by character: a string is a sequence of      *)
(* one-character strings, so that template interpolation, substring tests, *)
(* line splitting and parsing are computed, not assumed.  Characters are   *)
(* single-byte, so String.length equals the uploaded byte length.          *)
(* Time is counted in minutes since the epoch.                             *)
(***************************************************************************)
EXTENDS Integers, Sequences, FiniteSets, TLC

VARIABLES
    store,      \* the container: blob name -> [text, ctype]
    now,        \* the wall clock, minutes since the epoch
    nwrites,    \* number of uploads issued so far (bounds the exploration)
    res,        \* the call that completed last: its arguments and its outcome
    lastMeta,   \* history: slug -> meta returned by the latest createFolder of it
    metaUploaded, \* history: some uploadFile wrote to a name <slug>/_zwila.md
    calls,      \* createFolder calls that overlap: caller -> how far it has got
    stream      \* a body stream being read by streamToString, and its promise

vars == <<store, now, nwrites, res, lastMeta, metaUploaded, calls, stream>>

----------------------------------------------------------------------------
(* Bounds of the exploration *)

MaxWrites == 2
MaxCodecWrites == 1
MaxTicks == 1
MaxEvents == 4
StartMinute == 1445

----------------------------------------------------------------------------
(* Characters and strings *)

\* The characters in use, in code point order (blob names list in this order).
CharOrder ==
    << "\n", " ", "%", "&", "'", "+", "-", ".", "/",
       "0", "1", "2", "3", "4", "5", "6", "7", "8", "9", ":", "=", "?",
       "A", "B", "C", "D", "E", "F", "G", "H", "J", "L", "R", "S", "T", "U", "V",
       "X", "Z", "_",
       "a", "b", "c", "d", "e", "f", "g", "h", "i", "j", "k", "l", "m", "n", "o",
       "p", "q", "r", "s", "t", "u", "v", "w", "x", "y", "z" >>

Code(c) == CHOOSE i \in 1..Len(CharOrder) : CharOrder[i] = c

\* a < b for strings, as JavaScript and the blob service compare them
RECURSIVE StrLess(_, _)
StrLess(a, b) ==
    IF b = <<>> THEN FALSE
    ELSE IF a = <<>> THEN TRUE
    ELSE IF Head(a) = Head(b) THEN StrLess(Tail(a), Tail(b))
    ELSE Code(Head(a)) < Code(Head(b))

\* String.prototype.startsWith
StartsWith(s, p) == Len(s) >= Len(p) /\ SubSeq(s, 1, Len(p)) = p

\* String.prototype.endsWith
EndsWith(s, p) == Len(s) >= Len(p) /\ SubSeq(s, Len(s) - Len(p) + 1, Len(s)) = p

\* String.prototype.includes
Includes(s, p) == \E i \in 1..(Len(s) - Len(p) + 1) : SubSeq(s, i, i + Len(p) - 1) = p

\* index of the first occurrence of character c in s, 0 when there is none
IndexOf(s, c) ==
    IF \E i \in 1..Len(s) : s[i] = c
    THEN CHOOSE i \in 1..Len(s) : s[i] = c /\ \A j \in 1..(i - 1) : s[j] # c
    ELSE 0

\* String.prototype.split on one character
RECURSIVE Split(_, _)
Split(s, c) ==
    LET i == IndexOf(s, c)
    IN  IF i = 0 THEN <<s>>
        ELSE <<SubSeq(s, 1, i - 1)>> \o Split(SubSeq(s, i + 1, Len(s)), c)

\* Array.prototype.join with one character
RECURSIVE Join(_, _)
Join(parts, c) ==
    IF parts = <<>> THEN <<>>
    ELSE IF Len(parts) = 1 THEN parts[1]
    ELSE parts[1] \o <<c>> \o Join(Tail(parts), c)

Digit == <<"0", "1", "2", "3", "4", "5", "6", "7", "8", "9">>

IsDigit(c) == \E i \in 1..10 : Digit[i] = c

DigitValue(c) == (CHOOSE i \in 1..10 : Digit[i] = c) - 1

\* decimal numeral of a natural number
RECURSIVE Digits(_)
Digits(n) == IF n < 10 THEN <<Digit[n + 1]>> ELSE Digits(n \div 10) \o <<Digit[(n % 10) + 1]>>

IsNumeral(s) == s # <<>> /\ \A i \in 1..Len(s) : IsDigit(s[i])

\* value of a decimal numeral
RECURSIVE NumeralValue(_)
NumeralValue(s) ==
    IF s = <<>> THEN 0
    ELSE 10 * NumeralValue(SubSeq(s, 1, Len(s) - 1)) + DigitValue(s[Len(s)])

----------------------------------------------------------------------------
(* Dates *)

MinutesPerDay == 1440

\* Date.prototype.toISOString: the date component, "T", the time of day, "Z"
\* (the calendar date is the day number, the time of day the minute of the day)
ToISOString(t) ==
    Digits(t \div MinutesPerDay) \o <<"T">> \o Digits(t % MinutesPerDay) \o <<"Z">>

\* the date component of an ISO string: d.slice(0, 10) in the tests
DatePart(iso) == SubSeq(iso, 1, IndexOf(iso, "T") - 1)

IsISOString(s) ==
    /\ EndsWith(s, <<"Z">>)
    /\ LET p == Split(SubSeq(s, 1, Len(s) - 1), "T")
       IN  /\ Len(p) = 2
           /\ IsNumeral(p[1])
           /\ IsNumeral(p[2])
           /\ NumeralValue(p[2]) < MinutesPerDay

\* new Date(isoString).valueOf(), in minutes
ParseISO(s) ==
    LET p == Split(SubSeq(s, 1, Len(s) - 1), "T")
    IN  NumeralValue(p[1]) * MinutesPerDay + NumeralValue(p[2])

----------------------------------------------------------------------------
(* The metadata text *)

\* this.metafilename
metafilename == <<"_", "z", "w", "i", "l", "a", ".", "m", "d">>

\* (variant for C9: a default of 30 days)
DefaultExpiryThirtyDays == 30 * 24 * 60

\* 31 days from now, in minutes: 31 * 24 * 60 (* 60 * 1000 ms)
DefaultExpiryMinutes == 31 * 24 * 60

\* An expiry argument: omitted, a Date object, or a date string.
NoExpiry == [kind |-> "none", t |-> 0, s |-> <<>>]
DateExpiry(t) == [kind |-> "date", t |-> t, s |-> <<>>]
StringExpiry(s) == [kind |-> "string", t |-> 0, s |-> s]

\* new Date(expiry).valueOf() for a Date or a date string
DateValue(expiry) == IF expiry.kind = "date" THEN expiry.t ELSE ParseISO(expiry.s)

\* the expiry string createFolder puts in the text
ExpiryString(expiry, t) ==
    IF expiry.kind = "none"
    THEN ToISOString(t + DefaultExpiryMinutes)
    ELSE ToISOString(DateValue(expiry))

\* (variant for C10: the message appended without the blank line before it)
MetaTextNoBlankLine(slug, description, expiryString, message) ==
    LET md == <<"+", "+", "+", "\n">>
              \o <<"s", "l", "u", "g", " ", "=", " ", "'">> \o slug \o <<"'", "\n">>
              \o <<"d", "e", "s", "c", "r", "i", "p", "t", "i", "o", "n", " ", "=", " ", "'">>
              \o description \o <<"'", "\n">>
              \o <<"e", "x", "p", "i", "r", "y", " ", "=", " ">> \o expiryString \o <<"\n">>
              \o <<"d", "o", "w", "n", "l", "o", "a", "d", "s", " ", "=", " ", "0", "\n">>
              \o <<"+", "+", "+", "\n">>
    IN  IF message # <<>> THEN md \o message \o <<"\n">> ELSE md

\* the template literal of createFolder, and the optional message
MetaText(slug, description, expiryString, message) ==
    LET md == <<"+", "+", "+", "\n">>
              \o <<"s", "l", "u", "g", " ", "=", " ", "'">> \o slug \o <<"'", "\n">>
              \o <<"d", "e", "s", "c", "r", "i", "p", "t", "i", "o", "n", " ", "=", " ", "'">>
              \o description \o <<"'", "\n">>
              \o <<"e", "x", "p", "i", "r", "y", " ", "=", " ">> \o expiryString \o <<"\n">>
              \o <<"d", "o", "w", "n", "l", "o", "a", "d", "s", " ", "=", " ", "0", "\n">>
              \o <<"+", "+", "+", "\n">>
    IN  IF message # <<>> THEN md \o <<"\n">> \o message \o <<"\n">> ELSE md

----------------------------------------------------------------------------
(* Reading the metadata text back: the TOML frontmatter of the markdown,   *)
(* as the tests read it (remark-frontmatter, then TOML.parse)              *)

Fence == <<"+", "+", "+">>

RECURSIVE TrimLeft(_)
TrimLeft(s) == IF s # <<>> /\ Head(s) = " " THEN TrimLeft(Tail(s)) ELSE s

RECURSIVE TrimRight(_)
TrimRight(s) ==
    IF s # <<>> /\ s[Len(s)] = " " THEN TrimRight(SubSeq(s, 1, Len(s) - 1)) ELSE s

Trim(s) == TrimLeft(TrimRight(s))

IsBareKeyChar(c) == c \notin {"\n", " ", "'", "+", ".", "/", "="}

IsBareKey(k) == k # <<>> /\ \A i \in 1..Len(k) : IsBareKeyChar(k[i])

BadValue == [ok |-> FALSE, kind |-> "none", str |-> <<>>, num |-> 0]

\* one TOML value: a literal string '...' (no escapes, no quote and no line
\* break inside), an integer or a date-time; the texts explored hold no value
\* that opens with three quotes, TOML's multi-line form
TomlValue(v) ==
    IF v # <<>> /\ Head(v) = "'"
    THEN LET body == Tail(v)
             close == IndexOf(body, "'")
         IN  IF close = 0 \/ close # Len(body)
             THEN BadValue    \* unterminated, or text after the closing quote
             ELSE [ok |-> TRUE, kind |-> "string",
                   str |-> SubSeq(body, 1, close - 1), num |-> 0]
    ELSE IF IsNumeral(v)
    THEN [ok |-> TRUE, kind |-> "integer", str |-> <<>>, num |-> NumeralValue(v)]
    ELSE IF IsISOString(v)
    THEN [ok |-> TRUE, kind |-> "date", str |-> <<>>, num |-> ParseISO(v)]
    ELSE BadValue

\* one line of TOML: key = value (an empty line holds nothing)
TomlLine(line) ==
    LET eq == IndexOf(line, "=")
        key == Trim(SubSeq(line, 1, eq - 1))
        val == TomlValue(Trim(SubSeq(line, eq + 1, Len(line))))
    IN  IF eq = 0 \/ ~IsBareKey(key) \/ ~val.ok
        THEN [ok |-> FALSE, key |-> <<>>, val |-> BadValue]
        ELSE [ok |-> TRUE, key |-> key, val |-> val]

\* TOML.parse: a table of the pairs, or an error
TomlParse(lines) ==
    LET idx == {i \in 1..Len(lines) : Trim(lines[i]) # <<>>}
        pair(i) == TomlLine(lines[i])
    IN  IF /\ \A i \in idx : pair(i).ok
           /\ \A i, j \in idx : pair(i).key = pair(j).key => i = j
        THEN [ok |-> TRUE, keys |-> {pair(i).key : i \in idx},
              at |-> [k \in {pair(i).key : i \in idx} |->
                        pair(CHOOSE i \in idx : pair(i).key = k).val]]
        ELSE [ok |-> FALSE, keys |-> {}, at |-> <<>>]

KeySlug == <<"s", "l", "u", "g">>
KeyDescription == <<"d", "e", "s", "c", "r", "i", "p", "t", "i", "o", "n">>
KeyExpiry == <<"e", "x", "p", "i", "r", "y">>
KeyDownloads == <<"d", "o", "w", "n", "l", "o", "a", "d", "s">>

DecodeError ==
    [ok |-> FALSE, slug |-> <<>>, description |-> <<>>, expiry |-> 0,
     downloads |-> 0, message |-> <<>>]

\* the message body: what follows the closing fence, without the blank line
\* before it and the line break after it
MessageOf(rest) ==
    IF Len(rest) >= 2 /\ Head(rest) = "\n" /\ rest[Len(rest)] = "\n"
    THEN SubSeq(rest, 2, Len(rest) - 1)
    ELSE rest

\* the record a metadata text holds
DecodeMeta(md) ==
    LET lines == Split(md, "\n")
        closing == {i \in 2..Len(lines) : lines[i] = Fence}
    IN  IF lines[1] # Fence \/ closing = {}
        THEN DecodeError    \* no frontmatter node
        ELSE LET c == CHOOSE i \in closing : \A j \in closing : i <= j
                 toml == TomlParse(SubSeq(lines, 2, c - 1))
                 rest == Join(SubSeq(lines, c + 1, Len(lines)), "\n")
             IN  IF /\ toml.ok
                    /\ {KeySlug, KeyDescription, KeyExpiry, KeyDownloads} \subseteq toml.keys
                    /\ toml.at[KeySlug].kind = "string"
                    /\ toml.at[KeyDescription].kind = "string"
                    /\ toml.at[KeyExpiry].kind = "date"
                    /\ toml.at[KeyDownloads].kind = "integer"
                 THEN [ok |-> TRUE,
                       slug |-> toml.at[KeySlug].str,
                       description |-> toml.at[KeyDescription].str,
                       expiry |-> toml.at[KeyExpiry].num,
                       downloads |-> toml.at[KeyDownloads].num,
                       message |-> MessageOf(rest)]
                 ELSE DecodeError

----------------------------------------------------------------------------
(* The container *)

NoBlobs == [k \in {} |-> [text |-> <<>>, ctype |-> ""]]

\* (variant for C3: an upload that leaves an existing blob as it is)
PutIfAbsent(st, name, blob) ==
    [k \in (DOMAIN st) \cup {name} |-> IF k \in DOMAIN st THEN st[k] ELSE blob]

\* (variant for C21: an upload that leaves the new blob alone in the container)
PutAlone(st, name, blob) == [k \in {name} |-> blob]

\* (variant for C19: an upload that appends to what the blob holds)
PutAppend(st, name, blob) ==
    [k \in (DOMAIN st) \cup {name} |->
        IF k # name THEN st[k]
        ELSE IF k \in DOMAIN st
        THEN [text |-> st[k].text \o blob.text, ctype |-> blob.ctype]
        ELSE blob]

\* BlockBlobClient.upload / uploadFile: create the blob or replace it
Put(st, name, blob) ==
    [k \in (DOMAIN st) \cup {name} |-> IF k = name THEN blob ELSE st[k]]

\* a set of strings as the sequence in ascending order
RECURSIVE Sorted(_)
Sorted(S) ==
    IF S = {} THEN <<>>
    ELSE LET m == CHOOSE x \in S : \A y \in S \ {x} : StrLess(x, y)
         IN  <<m>> \o Sorted(S \ {m})

\* ContainerClient.listBlobsByHierarchy('/', { prefix }): the names under the
\* prefix, cut at the next delimiter: the virtual directories first, then the
\* blobs, each in name order
listBlobsByHierarchy(st, prefix) ==
    LET under == {k \in DOMAIN st : StartsWith(k, prefix)}
        rest(k) == SubSeq(k, Len(prefix) + 1, Len(k))
        dirs == {prefix \o SubSeq(rest(k), 1, IndexOf(rest(k), "/")) :
                    k \in {u \in under : IndexOf(rest(u), "/") # 0}}
        blobs == {k \in under : IndexOf(rest(k), "/") = 0}
        item(kind, names) == [i \in 1..Len(names) |-> [kind |-> kind, name |-> names[i]]]
    IN  item("prefix", Sorted(dirs)) \o item("blob", Sorted(blobs))

----------------------------------------------------------------------------
(* Content type of an uploaded file (src/src/util.js) *)

ExtPng == <<"p", "n", "g">>
ExtTxt == <<"t", "x", "t">>
ExtXml == <<"x", "m", "l">>
ExtCsv == <<"c", "s", "v">>

\* path.extname without the dot: empty when the path has no dot
extname(path) ==
    IF Len(Split(path, ".")) > 1 THEN Split(path, ".")[Len(Split(path, "."))] ELSE <<>>

\* is-binary-path: the extension is one of the binary extensions
isBinaryPath(path) == extname(path) \in {ExtPng}

getFileExtension(filename) == Split(filename, ".")[Len(Split(filename, "."))]

\* textMimeTypes[ext]; a missing key reads as undefined
textMimeTypes(ext) ==
    IF ext = ExtTxt THEN "text/plain"
    ELSE IF ext = ExtXml THEN "text/xml"
    ELSE IF ext = ExtCsv THEN "text/csv"
    ELSE "undefined"

\* file.sniff is what FileType.fromFile finds in the bytes, or "undefined"
getContentTypeFromFile(file) ==
    IF file.sniff # "undefined" /\ isBinaryPath(file.path) THEN file.sniff
    ELSE IF file.sniff = "undefined" /\ ~isBinaryPath(file.path)
    THEN textMimeTypes(getFileExtension(file.path))
    ELSE ""

----------------------------------------------------------------------------
(* URLs *)

\* the characters in use that encodeURIComponent escapes, with their escapes
PercentEscapes ==
    << <<"\n", <<"0", "A">>>>, <<" ", <<"2", "0">>>>, <<"%", <<"2", "5">>>>,
       <<"&", <<"2", "6">>>>, <<"+", <<"2", "B">>>>, <<"/", <<"2", "F">>>>,
       <<":", <<"3", "A">>>>, <<"=", <<"3", "D">>>>, <<"?", <<"3", "F">>>> >>

EscapeIndex(c) ==
    IF \E i \in 1..Len(PercentEscapes) : PercentEscapes[i][1] = c
    THEN CHOOSE i \in 1..Len(PercentEscapes) : PercentEscapes[i][1] = c
    ELSE 0

UnescapeIndex(h) ==
    IF \E i \in 1..Len(PercentEscapes) : PercentEscapes[i][2] = h
    THEN CHOOSE i \in 1..Len(PercentEscapes) : PercentEscapes[i][2] = h
    ELSE 0

\* what one character becomes under encodeURIComponent
EscapeOf(c) ==
    IF EscapeIndex(c) = 0 THEN <<c>> ELSE <<"%">> \o PercentEscapes[EscapeIndex(c)][2]

\* encodeURIComponent: letters, digits and - _ . ! ~ * ' ( ) stay, every
\* other character becomes %XX.  (Three places per character, the unused
\* ones dropped.)
encodeURIComponent(s) ==
    SelectSeq([j \in 1..(3 * Len(s)) |->
                  LET p == EscapeOf(s[((j - 1) \div 3) + 1])
                      k == ((j - 1) % 3) + 1
                  IN  IF k <= Len(p) THEN p[k] ELSE ""],
              LAMBDA c : c # "")

\* what decodeURIComponent yields where it throws (a malformed escape)
URIError == <<"URIError">>

\* every "%" is followed by the two digits of a known escape
WellEscaped(s) ==
    \A i \in 1..Len(s) :
        s[i] = "%" => i + 2 <= Len(s) /\ UnescapeIndex(SubSeq(s, i + 1, i + 2)) # 0

\* the characters of s with every %XX replaced: the two digits after a "%"
\* are dropped, the "%" becomes the escaped character
Unescape(s) ==
    LET starts == SelectSeq([i \in 1..Len(s) |-> i],
                            LAMBDA i : /\ ~(i > 1 /\ s[i - 1] = "%")
                                       /\ ~(i > 2 /\ s[i - 2] = "%"))
    IN  [n \in 1..Len(starts) |->
            IF s[starts[n]] = "%"
            THEN PercentEscapes[UnescapeIndex(SubSeq(s, starts[n] + 1, starts[n] + 2))][1]
            ELSE s[starts[n]]]

\* decodeURIComponent: every %XX becomes its character again
decodeURIComponent(s) == IF WellEscaped(s) THEN Unescape(s) ELSE URIError

\* options.account and options.container
Account == <<"a", "c", "c", "t">>
Container == <<"z", "w">>

Https == <<"h", "t", "t", "p", "s", ":", "/", "/">>

BlobEndpointSuffix ==
    <<".", "b", "l", "o", "b", ".", "c", "o", "r", "e", ".",
      "w", "i", "n", "d", "o", "w", "s", ".", "n", "e", "t">>

\* `https://${options.account}.blob.core.windows.net`
ServiceUrl == Https \o Account \o BlobEndpointSuffix

\* blobServiceClient.getContainerClient(options.container).url
ContainerUrl == ServiceUrl \o <<"/">> \o encodeURIComponent(Container)

\* containerClient.getBlockBlobClient(name).url: the blob name is appended
\* escaped, "/" included
BlockBlobClientUrl(name) == ContainerUrl \o <<"/">> \o encodeURIComponent(name)

\* (variant for C12: the client's URL returned as it is)
blobUrlEscaped(name) == BlockBlobClientUrl(name)

\* decodeURIComponent(blockBlobClient.url)
blobUrl(name) == decodeURIComponent(BlockBlobClientUrl(name))

----------------------------------------------------------------------------
(* Shared access signatures *)

\* getSASUrl(slug, filename, minutes = 60): the lifetime when none is passed
DefaultSasMinutes == 60

\* 10 mins ago, tolerate eventual clock misalignment
SasStartSkew == 10

\* the minutes argument: omitted, or a number
NoMinutes == [given |-> FALSE, m |-> 0]
GivenMinutes(m) == [given |-> TRUE, m |-> m]
MinutesValue(minutes) == IF minutes.given THEN minutes.m ELSE DefaultSasMinutes

\* BlobSASPermissions.parse('r').toString()
ReadPermission == <<"r">>

\* the service version the token is issued for
SasVersion == <<"2", "0", "2", "0", "-", "0", "2", "-", "1", "0">>

\* (variant for C13: the validity starts at the instant of the call)
sasRequestNoSkew(blobname, minutes, t1, t2) ==
    [containerName |-> Container, blobName |-> blobname,
     startsOn |-> t1,
     expiresOn |-> t2 + MinutesValue(minutes),
     permissions |-> ReadPermission]

\* the values handed to generateBlobSASQueryParameters; t1 and t2 are the two
\* readings of the clock, new Date() being evaluated once for each bound
sasRequest(blobname, minutes, t1, t2) ==
    [containerName |-> Container, blobName |-> blobname,
     startsOn |-> t1 - SasStartSkew,
     expiresOn |-> t2 + MinutesValue(minutes),
     permissions |-> ReadPermission]

\* the string the account key signs: permissions, start, expiry, the
\* canonical name of the blob, version and resource kind
StringToSign(req) ==
    Join(<< req.permissions, ToISOString(req.startsOn), ToISOString(req.expiresOn),
            <<"/", "b", "l", "o", "b", "/">> \o Account \o <<"/">>
                \o req.containerName \o <<"/">> \o req.blobName,
            SasVersion, <<"b">> >>, "\n")

\* the keyed hash of a string, standing for HMAC-SHA256 under the account key:
\* a one-to-one rendering of the signed string, so that two signatures are
\* equal exactly when the signed strings are
Signature(s) == [j \in 1..Len(s) |-> s[Len(s) + 1 - j]]

\* (variant for C14: a signature over the blob's name alone)
generateBlobSASQueryParametersNameOnly(req) ==
    << <<"sv", SasVersion>>,
       <<"st", ToISOString(req.startsOn)>>,
       <<"se", ToISOString(req.expiresOn)>>,
       <<"sr", <<"b">>>>,
       <<"sp", req.permissions>>,
       <<"sig", Signature(req.blobName)>> >>

\* generateBlobSASQueryParameters(values, credential): the parameters of the
\* token, in the order toString() writes them
generateBlobSASQueryParameters(req) ==
    << <<"sv", SasVersion>>,
       <<"st", ToISOString(req.startsOn)>>,
       <<"se", ToISOString(req.expiresOn)>>,
       <<"sr", <<"b">>>>,
       <<"sp", req.permissions>>,
       <<"sig", Signature(StringToSign(req))>> >>

Chars(name) == IF name = "sv" THEN <<"s", "v">>
               ELSE IF name = "st" THEN <<"s", "t">>
               ELSE IF name = "se" THEN <<"s", "e">>
               ELSE IF name = "sr" THEN <<"s", "r">>
               ELSE IF name = "sp" THEN <<"s", "p">>
               ELSE <<"s", "i", "g">>

\* SASQueryParameters.toString(): name=value pairs joined by "&", the values
\* escaped
SasToString(params) ==
    Join([i \in 1..Len(params) |->
            Chars(params[i][1]) \o <<"=">> \o encodeURIComponent(params[i][2])],
         "&")

----------------------------------------------------------------------------
(* The methods of Zwila, as functions of the container *)

\* containerClient.exists(): the blobs st are those of a container that is
\* there (the client is constructed for an existing container)
containerExists(st) == TRUE

\* `${slug}/${filename}`
BlobName(slug, filename) == slug \o <<"/">> \o filename

MetaContentType == "text/markdown; charset=UTF-8"

\* createFolder: the text md built from the arguments at instant t
createFolderMeta(slug, description, expiry, message, t) ==
    MetaText(slug, description, ExpiryString(expiry, t), message)

\* createFolder: the blob name the text is uploaded to
createFolderTarget(slug) == BlobName(slug, metafilename)

\* uploadFile: the blob name the file is uploaded to
uploadFileTarget(slug, filename) == BlobName(slug, filename)

\* the error code download() rejects with when the blob does not exist (404)
BlobNotFound == "BlobNotFound"

\* (variant for C15: an empty text for a folder without metadata blob)
getFolderMetaOrEmpty(st, slug) ==
    IF BlobName(slug, metafilename) \in DOMAIN st
    THEN [ok |-> TRUE, text |-> st[BlobName(slug, metafilename)].text]
    ELSE [ok |-> TRUE, text |-> <<>>]

\* (variant for C22: no metadata once the expiry written in it has passed)
getFolderMetaUnlessExpired(st, slug) ==
    IF /\ BlobName(slug, metafilename) \in DOMAIN st
       /\ ~(/\ DecodeMeta(st[BlobName(slug, metafilename)].text).ok
             /\ DecodeMeta(st[BlobName(slug, metafilename)].text).expiry <= now)
    THEN [ok |-> TRUE, text |-> st[BlobName(slug, metafilename)].text]
    ELSE [ok |-> FALSE, text |-> <<>>]

\* getFolderMeta: the text of <slug>/_zwila.md; download() rejects when the
\* blob does not exist
getFolderMeta(st, slug) ==
    IF BlobName(slug, metafilename) \in DOMAIN st
    THEN [ok |-> TRUE, text |-> st[BlobName(slug, metafilename)].text]
    ELSE [ok |-> FALSE, text |-> <<>>]

\* listFolderBlobs: the blob items under <slug>/ whose name does not include
\* the metafilename
listFolderBlobs(st, slug) ==
    SelectSeq(listBlobsByHierarchy(st, slug \o <<"/">>),
              LAMBDA item : item.kind = "blob" /\ ~Includes(item.name, metafilename))

\* (variant for C2: a loop that leaves out the folders whose expiry has passed)
RECURSIVE listFoldersLoopSkipExpired(_, _, _, _)
listFoldersLoopSkipExpired(st, slug, items, folders) ==
    IF items = <<>> THEN [ok |-> TRUE, list |-> folders]
    ELSE LET item == Head(items)
             f == SubSeq(item.name, 1, Len(item.name) - 1)
         IN  IF item.kind # "prefix" \/ (slug # <<>> /\ f # slug)
             THEN listFoldersLoopSkipExpired(st, slug, Tail(items), folders)
             ELSE IF ~getFolderMeta(st, f).ok
             THEN [ok |-> FALSE, list |-> <<>>]
             ELSE IF /\ DecodeMeta(getFolderMeta(st, f).text).ok
                     /\ DecodeMeta(getFolderMeta(st, f).text).expiry <= now
             THEN listFoldersLoopSkipExpired(st, slug, Tail(items), folders)
             ELSE listFoldersLoopSkipExpired(st, slug, Tail(items),
                     Append(folders, [meta |-> getFolderMeta(st, f).text,
                                      blobs |-> listFolderBlobs(st, f)]))

\* (variant for C24: a loop that puts each folder in front of those collected)
RECURSIVE listFoldersLoopPrepend(_, _, _, _)
listFoldersLoopPrepend(st, slug, items, folders) ==
    IF items = <<>> THEN [ok |-> TRUE, list |-> folders]
    ELSE LET item == Head(items)
             f == SubSeq(item.name, 1, Len(item.name) - 1)
         IN  IF item.kind # "prefix" \/ (slug # <<>> /\ f # slug)
             THEN listFoldersLoopPrepend(st, slug, Tail(items), folders)
             ELSE IF ~getFolderMeta(st, f).ok
             THEN [ok |-> FALSE, list |-> <<>>]
             ELSE listFoldersLoopPrepend(st, slug, Tail(items),
                     <<[meta |-> getFolderMeta(st, f).text,
                        blobs |-> listFolderBlobs(st, f)]>> \o folders)

\* (variant for C18: a loop that passes over a folder whose metadata cannot
\* be fetched)
RECURSIVE listFoldersLoopSkipMissing(_, _, _, _)
listFoldersLoopSkipMissing(st, slug, items, folders) ==
    IF items = <<>> THEN [ok |-> TRUE, list |-> folders]
    ELSE LET item == Head(items)
             f == SubSeq(item.name, 1, Len(item.name) - 1)
         IN  IF item.kind # "prefix" \/ (slug # <<>> /\ f # slug)
             THEN listFoldersLoopSkipMissing(st, slug, Tail(items), folders)
             ELSE IF ~getFolderMeta(st, f).ok
             THEN listFoldersLoopSkipMissing(st, slug, Tail(items), folders)
             ELSE listFoldersLoopSkipMissing(st, slug, Tail(items),
                     Append(folders, [meta |-> getFolderMeta(st, f).text,
                                      blobs |-> listFolderBlobs(st, f)]))

\* listFolders: the loop body over the items that remain, folders collected so far
RECURSIVE listFoldersLoop(_, _, _, _)
listFoldersLoop(st, slug, items, folders) ==
    IF items = <<>> THEN [ok |-> TRUE, list |-> folders]
    ELSE LET item == Head(items)
             f == SubSeq(item.name, 1, Len(item.name) - 1)
         IN  IF item.kind # "prefix" \/ (slug # <<>> /\ f # slug)
             THEN listFoldersLoop(st, slug, Tail(items), folders)
             ELSE IF ~getFolderMeta(st, f).ok
             THEN [ok |-> FALSE, list |-> <<>>]    \* the rejection propagates
             ELSE listFoldersLoop(st, slug, Tail(items),
                     Append(folders, [meta |-> getFolderMeta(st, f).text,
                                      blobs |-> listFolderBlobs(st, f)]))

\* listFolders: the requests the loop sends to the service over the items that
\* remain, in the order it sends them: each await ends before the next
\* statement runs, and a rejected download ends the loop
RECURSIVE listFoldersRequests(_, _, _)
listFoldersRequests(st, slug, items) ==
    IF items = <<>> THEN <<>>
    ELSE LET item == Head(items)
             f == SubSeq(item.name, 1, Len(item.name) - 1)
         IN  IF item.kind # "prefix" \/ (slug # <<>> /\ f # slug)
             THEN listFoldersRequests(st, slug, Tail(items))
             ELSE IF ~getFolderMeta(st, f).ok
             THEN <<[op |-> "download", name |-> BlobName(f, metafilename)]>>
             ELSE <<[op |-> "download", name |-> BlobName(f, metafilename)],
                    [op |-> "list", name |-> f \o <<"/">>]>>
                  \o listFoldersRequests(st, slug, Tail(items))

\* listFolders(slug): slug <<>> stands for the omitted argument
listFolders(st, slug) == listFoldersLoop(st, slug, listBlobsByHierarchy(st, <<>>), <<>>)

\* (variant for C20: a token only for a blob that is stored)
getSASUrlIfStored(slug, filename, minutes, t1, t2) ==
    LET blobname == BlobName(slug, filename)
        req == sasRequest(blobname, minutes, t1, t2)
    IN  IF blobname \in DOMAIN store
        THEN [ok |-> TRUE, sas |-> req,
              url |-> blobUrl(blobname) \o <<"?">>
                      \o SasToString(generateBlobSASQueryParameters(req))]
        ELSE [ok |-> FALSE, sas |-> req, url |-> <<>>]

\* getSASUrl: the values the token is requested with, and `${url}?${sastoken}`
getSASUrl(slug, filename, minutes, t1, t2) ==
    LET blobname == BlobName(slug, filename)
        req == sasRequest(blobname, minutes, t1, t2)
    IN  [ok |-> TRUE, sas |-> req,
         url |-> blobUrl(blobname) \o <<"?">>
                 \o SasToString(generateBlobSASQueryParameters(req))]

----------------------------------------------------------------------------
(* Arguments the calls are explored with *)

SlugA == <<"a">>
SlugQuote == <<"b", "'">>

\* slugs passed by callers: path-safe, no "/"
Slugs == {SlugA, SlugQuote}

\* folders files are uploaded to
UploadSlugs == {SlugA}

\* the alphabet nanoid draws from: A-Z, a-z, 0-9, "_" and "-"
UrlSafeAlphabet ==
    { "A", "B", "C", "D", "E", "F", "G", "H", "I", "J", "K", "L", "M",
      "N", "O", "P", "Q", "R", "S", "T", "U", "V", "W", "X", "Y", "Z",
      "a", "b", "c", "d", "e", "f", "g", "h", "i", "j", "k", "l", "m",
      "n", "o", "p", "q", "r", "s", "t", "u", "v", "w", "x", "y", "z",
      "0", "1", "2", "3", "4", "5", "6", "7", "8", "9", "_", "-" }

\* (variant for C11: ids one character short, as nanoid.nanoid(20) returns)
NanoidPoolTwenty ==
    { <<"V", "1", "S", "t", "G", "X", "R", "8", "_", "Z", "5",
        "j", "d", "H", "i", "6", "B", "-", "m", "y">> }

\* what nanoid.nanoid() may return: 21 characters of the URL-safe alphabet
NanoidPool ==
    { <<"V", "1", "S", "t", "G", "X", "R", "8", "_", "Z", "5",
        "j", "d", "H", "i", "6", "B", "-", "m", "y", "T">> }

\* <<>> stands for an omitted (null) argument
Descriptions == {<<>>, <<"d">>, <<"d", "'">>, <<"d", "\n", "e">>}

Messages == {<<>>, <<"m">>, <<"+", "+", "+">>}

Expiries ==
    { NoExpiry,
      DateExpiry(StartMinute + 1),
      DateExpiry(StartMinute + MinutesPerDay),
      StringExpiry(ToISOString(StartMinute - 5)) }

\* every combination of description, expiry and message
AllCreateArgs ==
    {[description |-> d, expiry |-> e, message |-> m] :
        d \in Descriptions, e \in Expiries, m \in Messages}

\* the combinations used where calls follow one another: all parameters
\* omitted, all given (as the tests create their folder), an expired folder
CreateArgs ==
    { [description |-> <<>>, expiry |-> NoExpiry, message |-> <<>>],
      [description |-> <<"d", "\n", "e">>, expiry |-> DateExpiry(StartMinute + 1),
       message |-> <<"+", "+", "+">>],
      [description |-> <<"d">>, expiry |-> StringExpiry(ToISOString(StartMinute - 5)),
       message |-> <<"m">>] }

PngFile == [path |-> <<"r", ".", "p", "n", "g">>, sniff |-> "image/png",
            content |-> <<"p", "n", "g">>]

\* a text file that happens to hold a metadata text of another folder
TextFile == [path |-> <<"n", ".", "t", "x", "t">>, sniff |-> "undefined",
             content |-> MetaText(<<"z">>, <<>>, ToISOString(0), <<>>)]

\* the uploads explored: a plain member, a member whose name contains the
\* metafilename, and the metafilename itself
UploadArgs ==
    { [file |-> PngFile, filename |-> <<"f", ".", "p", "n", "g">>],
      [file |-> PngFile, filename |-> <<"x">> \o metafilename],
      [file |-> PngFile, filename |-> metafilename],
      [file |-> TextFile, filename |-> metafilename] }

\* the kinds of local file: by what the bytes show and what the path ends in
AllFiles ==
    { PngFile, TextFile,
      [path |-> <<"n", ".", "x", "m", "l">>, sniff |-> "undefined", content |-> <<"x">>],
      [path |-> <<"n", ".", "c", "s", "v">>, sniff |-> "undefined", content |-> <<"c">>],
      [path |-> <<"n", ".", "m", "d">>, sniff |-> "undefined", content |-> <<"m">>],
      [path |-> <<"n", ".", "j", "s">>, sniff |-> "undefined", content |-> <<"j">>],
      [path |-> <<"r", ".", "t", "x", "t">>, sniff |-> "image/png",
       content |-> <<"p", "n", "g">>],
      [path |-> <<"e", ".", "p", "n", "g">>, sniff |-> "undefined", content |-> <<>>] }

\* target names: plain, with a blank, looking like an escape, the metafilename
AllFileNames ==
    { <<"f", ".", "p", "n", "g">>, <<"a", " ", "b">>, <<"%", "2", "F">>, metafilename }

\* lifetimes asked for: none, zero, short, long, and one in the past
SasMinutes == {NoMinutes, GivenMinutes(0), GivenMinutes(5), GivenMinutes(90),
               GivenMinutes(0 - 20)}

\* the lifetimes used where calls follow one another
SasMinutesFew == {NoMinutes, GivenMinutes(5)}

----------------------------------------------------------------------------
(* The calls *)

NoCall ==
    [op |-> "none", ok |-> TRUE, slug |-> <<>>, filename |-> <<>>,
     includeExpired |-> FALSE, text |-> <<>>, list |-> <<>>,
     description |-> <<>>, expiry |-> NoExpiry, message |-> <<>>,
     slugGiven |-> FALSE, slugArg |-> <<>>, url |-> <<>>, error |-> "",
     path |-> <<>>, sniff |-> "undefined", exists |-> FALSE, requests |-> <<>>,
     minutes |-> NoMinutes, at |-> 0, at2 |-> 0,
     sas |-> [containerName |-> <<>>, blobName |-> <<>>, startsOn |-> 0,
              expiresOn |-> 0, permissions |-> <<>>]]

\* the callers whose createFolder calls may overlap
Callers == {"c1", "c2"}

\* a caller that has not called yet
NotCalled == [pc |-> "idle", slug |-> <<>>, md |-> <<>>, seq |-> 0, ok |-> FALSE]

\* no body is being read
NoStream == [state |-> "idle", chunks |-> <<>>, value |-> <<>>, error |-> "",
             silent |-> FALSE, events |-> <<>>]

Init ==
    /\ store = NoBlobs
    /\ now = StartMinute
    /\ nwrites = 0
    /\ res = NoCall
    /\ lastMeta = [k \in {} |-> <<>>]
    /\ metaUploaded = FALSE
    /\ calls = [c \in Callers |-> NotCalled]
    /\ stream = NoStream

\* createFolder(slug, description, expiry, message), as the cap-th upload at
\* most; s is the slug in effect: the one given, or a fresh nanoid
CreateFolderAs(slug, s, description, expiry, message, cap) ==
    LET md == createFolderMeta(s, description, expiry, message, now)
    IN  /\ nwrites < cap
        /\ nwrites' = nwrites + 1
        /\ store' = Put(store, createFolderTarget(s),
                        [text |-> md, ctype |-> MetaContentType])
        /\ res' = [NoCall EXCEPT !.op = "createFolder", !.slug = s,
                                 !.slugGiven = (slug # <<>>), !.slugArg = slug,
                                 !.text = md, !.url = blobUrl(createFolderTarget(s)),
                                 !.description = description, !.expiry = expiry,
                                 !.message = message]
        /\ lastMeta' = [k \in (DOMAIN lastMeta) \cup {s} |->
                            IF k = s THEN md ELSE lastMeta[k]]
        /\ UNCHANGED <<now, metaUploaded, calls, stream>>

\* if (!slug) slug = nanoid.nanoid()
CreateFolderWith(slug, a, cap) ==
    IF slug # <<>>
    THEN CreateFolderAs(slug, slug, a.description, a.expiry, a.message, cap)
    ELSE \E id \in NanoidPool :
            CreateFolderAs(slug, id, a.description, a.expiry, a.message, cap)

CreateFolder ==
    \E slug \in Slugs \cup {<<>>}, a \in CreateArgs : CreateFolderWith(slug, a, MaxWrites)

\* uploadFile(sourcepath, slug, filename), as the cap-th upload at most
UploadFileAs(file, slug, filename, cap) ==
    /\ nwrites < cap
    /\ nwrites' = nwrites + 1
    /\ store' = Put(store, uploadFileTarget(slug, filename),
                    [text |-> file.content, ctype |-> getContentTypeFromFile(file)])
    /\ res' = [NoCall EXCEPT !.op = "uploadFile", !.slug = slug,
                             !.filename = filename, !.text = file.content,
                             !.path = file.path, !.sniff = file.sniff,
                             !.url = blobUrl(uploadFileTarget(slug, filename))]
    /\ metaUploaded' = (metaUploaded \/ filename = metafilename)
    /\ UNCHANGED <<now, lastMeta, calls, stream>>

UploadFile ==
    \E a \in UploadArgs, slug \in UploadSlugs :
        UploadFileAs(a.file, slug, a.filename, MaxWrites)

\* hasContainer(): containerClient.exists(), for the container the blobs are in
HasContainer ==
    /\ res' = [NoCall EXCEPT !.op = "hasContainer", !.exists = containerExists(store)]
    /\ UNCHANGED <<store, now, nwrites, lastMeta, metaUploaded, calls, stream>>

\* getFolderMeta(slug)
GetFolderMeta ==
    \E slug \in Slugs \cup NanoidPool :
        /\ res' = [NoCall EXCEPT !.op = "getFolderMeta", !.slug = slug,
                                 !.ok = getFolderMeta(store, slug).ok,
                                 !.error = IF getFolderMeta(store, slug).ok THEN ""
                                           ELSE BlobNotFound,
                                 !.text = getFolderMeta(store, slug).text]
        /\ UNCHANGED <<store, now, nwrites, lastMeta, metaUploaded, calls, stream>>

\* listFolderBlobs(slug)
ListFolderBlobs ==
    \E slug \in Slugs \cup NanoidPool :
        /\ res' = [NoCall EXCEPT !.op = "listFolderBlobs", !.slug = slug,
                                 !.list = listFolderBlobs(store, slug)]
        /\ UNCHANGED <<store, now, nwrites, lastMeta, metaUploaded, calls, stream>>

\* listFolders(slug) and listFolders(slug, includeExpired) as the tests call it:
\* the method declares one parameter, a second argument is dropped
ListFolders ==
    \E slug \in Slugs \cup {<<>>}, includeExpired \in BOOLEAN :
        /\ res' = [NoCall EXCEPT !.op = "listFolders", !.slug = slug,
                                 !.includeExpired = includeExpired,
                                 !.ok = listFolders(store, slug).ok,
                                 !.error = IF listFolders(store, slug).ok THEN ""
                                           ELSE BlobNotFound,
                                 !.list = listFolders(store, slug).list,
                                 !.requests =
                                    <<[op |-> "list", name |-> <<>>]>>
                                    \o listFoldersRequests(store, slug,
                                           listBlobsByHierarchy(store, <<>>))]
        /\ UNCHANGED <<store, now, nwrites, lastMeta, metaUploaded, calls, stream>>

\* getSASUrl(slug, filename, minutes); the clock may step by d between the
\* two readings the call takes
GetSASUrlAs(slug, filename, minutes, d) ==
    /\ now + d <= StartMinute + MaxTicks
    /\ now' = now + d
    /\ LET r == getSASUrl(slug, filename, minutes, now, now + d)
       IN  res' = [NoCall EXCEPT !.op = "getSASUrl", !.slug = slug,
                                 !.filename = filename, !.minutes = minutes,
                                 !.at = now, !.at2 = now + d,
                                 !.ok = r.ok, !.sas = r.sas, !.url = r.url]
    /\ UNCHANGED <<store, nwrites, lastMeta, metaUploaded, calls, stream>>

GetSASUrl ==
    \E minutes \in SasMinutesFew :
        GetSASUrlAs(SlugA, <<"f", ".", "p", "n", "g">>, minutes, 0)

\* a minute passes between two calls
Tick ==
    /\ now < StartMinute + MaxTicks
    /\ now' = now + 1
    /\ res' = NoCall
    /\ UNCHANGED <<store, nwrites, lastMeta, metaUploaded, calls, stream>>

Next ==
    \/ CreateFolder
    \/ UploadFile
    \/ GetFolderMeta
    \/ ListFolderBlobs
    \/ ListFolders
    \/ GetSASUrl
    \/ HasContainer
    \/ Tick

Spec == Init /\ [][Next]_vars

\* The metadata text alone: one createFolder per behaviour, with every
\* combination of its arguments, at any of the instants
CreateFolderAny ==
    \E slug \in Slugs \cup {<<>>}, a \in AllCreateArgs :
        CreateFolderWith(slug, a, MaxCodecWrites)

\* one uploadFile per behaviour, with every kind of file and of name
UploadFileAny ==
    \E file \in AllFiles, slug \in Slugs, filename \in AllFileNames :
        UploadFileAs(file, slug, filename, MaxCodecWrites)

NextCodec ==
    \/ CreateFolderAny
    \/ UploadFileAny
    \/ Tick

SpecCodec == Init /\ [][NextCodec]_vars

\* The signed URL alone: getSASUrl for every slug, name and lifetime, at any
\* of the instants
GetSASUrlAny ==
    \E slug \in Slugs, filename \in AllFileNames, minutes \in SasMinutes, d \in {0, 1} :
        GetSASUrlAs(slug, filename, minutes, d)

NextSas ==
    \/ GetSASUrlAny
    \/ Tick

SpecSas == Init /\ [][NextSas]_vars

\* Overlapping createFolder calls.  A call runs up to its await of
\* blockBlobClient.upload, the service stores the blob, and the call resumes
\* with the response; calls of other callers may run in between.

\* createFolder up to the upload request: the text is built from the arguments
CreateBegin(c) ==
    \E slug \in Slugs, a \in CreateArgs :
        /\ calls[c].pc = "idle"
        /\ calls' = [calls EXCEPT ![c] =
                        [pc |-> "uploading", slug |-> slug,
                         md |-> createFolderMeta(slug, a.description, a.expiry,
                                                 a.message, now),
                         seq |-> 0, ok |-> FALSE]]
        /\ UNCHANGED <<store, now, nwrites, res, lastMeta, metaUploaded, stream>>

\* the service carries out the upload: the blob is created or replaced as a whole
UploadCommit(c) ==
    /\ calls[c].pc = "uploading"
    /\ store' = Put(store, createFolderTarget(calls[c].slug),
                    [text |-> calls[c].md, ctype |-> MetaContentType])
    /\ nwrites' = nwrites + 1
    /\ lastMeta' = [k \in (DOMAIN lastMeta) \cup {calls[c].slug} |->
                        IF k = calls[c].slug THEN calls[c].md ELSE lastMeta[k]]
    /\ calls' = [calls EXCEPT ![c].pc = "stored", ![c].seq = nwrites + 1]
    /\ UNCHANGED <<now, res, metaUploaded, stream>>

\* the call resumes after the await and returns { meta, url, serverResponse }
CreateReturn(c) ==
    /\ calls[c].pc = "stored"
    /\ calls' = [calls EXCEPT ![c].pc = "done", ![c].ok = TRUE]
    /\ res' = [NoCall EXCEPT !.op = "createFolder", !.slug = calls[c].slug,
                             !.slugGiven = TRUE, !.slugArg = calls[c].slug,
                             !.text = calls[c].md,
                             !.url = blobUrl(createFolderTarget(calls[c].slug))]
    /\ UNCHANGED <<store, now, nwrites, lastMeta, metaUploaded, stream>>

\* a minute passes while calls are in flight
TickInFlight ==
    /\ now < StartMinute + MaxTicks
    /\ now' = now + 1
    /\ UNCHANGED <<store, nwrites, res, lastMeta, metaUploaded, calls, stream>>

NextOverlap ==
    \/ \E c \in Callers : CreateBegin(c)
    \/ \E c \in Callers : UploadCommit(c)
    \/ \E c \in Callers : CreateReturn(c)
    \/ TickInFlight

SpecOverlap == Init /\ [][NextOverlap]_vars

\* Reading a body.  getFolderMeta hands the body of the download to
\* streamToString, which returns a promise and attaches three listeners; the
\* stream then emits events in any order and number, or falls silent.

\* the buffers a 'data' event may carry, as bytes
Buffers == { <<Code("a")>>, <<Code("b"), Code("c")>> }

\* the errors an 'error' event may carry
StreamErrors == {"ECONNRESET", "ETIMEDOUT"}

\* data.toString(): the characters of the bytes (single-byte characters)
BufferToString(b) == [i \in 1..Len(b) |-> CharOrder[b[i]]]

\* chunks.join('')
RECURSIVE JoinChunks(_)
JoinChunks(chunks) ==
    IF chunks = <<>> THEN <<>> ELSE Head(chunks) \o JoinChunks(Tail(chunks))

\* the 'data' listener: chunks.push(data.toString())
onData(s, b) == [s EXCEPT !.chunks = Append(s.chunks, BufferToString(b))]

\* (variant for C26: an 'end' listener that overwrites a settled outcome)
onEndAgain(s) ==
    [s EXCEPT !.state = "resolved", !.value = JoinChunks(s.chunks), !.error = ""]

\* the 'end' listener: resolve(chunks.join('')); resolving a promise that is
\* settled has no effect
onEnd(s) ==
    IF s.state = "pending"
    THEN [s EXCEPT !.state = "resolved", !.value = JoinChunks(s.chunks)]
    ELSE s

\* the 'error' listener: reject; rejecting a promise that is settled has no
\* effect
onError(s, e) ==
    IF s.state = "pending" THEN [s EXCEPT !.state = "rejected", !.error = e] ELSE s

\* streamToString(readableStream): the promise is pending, the listeners are on
StreamOpen ==
    /\ stream.state = "idle"
    /\ stream' = [NoStream EXCEPT !.state = "pending"]
    /\ UNCHANGED <<store, now, nwrites, res, lastMeta, metaUploaded, calls>>

\* the stream emits 'data'
StreamData ==
    \E b \in Buffers :
        /\ stream.state # "idle" /\ ~stream.silent
        /\ Len(stream.events) < MaxEvents
        /\ stream' = [onData(stream, b) EXCEPT
                        !.events = Append(stream.events, [type |-> "data", data |-> b,
                                                          error |-> ""])]
        /\ UNCHANGED <<store, now, nwrites, res, lastMeta, metaUploaded, calls>>

\* the stream emits 'end'; a stream that is not silent ends or fails in the
\* end, so only what follows the settlement is bounded
StreamEnd ==
    /\ stream.state # "idle" /\ ~stream.silent
    /\ stream.state = "pending" \/ Len(stream.events) < MaxEvents
    /\ stream' = [onEnd(stream) EXCEPT
                    !.events = Append(stream.events, [type |-> "end", data |-> <<>>,
                                                      error |-> ""])]
    /\ UNCHANGED <<store, now, nwrites, res, lastMeta, metaUploaded, calls>>

\* the stream emits 'error'
StreamError ==
    \E e \in StreamErrors :
        /\ stream.state # "idle" /\ ~stream.silent
        /\ stream.state = "pending" \/ Len(stream.events) < MaxEvents
        /\ stream' = [onError(stream, e) EXCEPT
                        !.events = Append(stream.events, [type |-> "error", data |-> <<>>,
                                                          error |-> e])]
        /\ UNCHANGED <<store, now, nwrites, res, lastMeta, metaUploaded, calls>>

\* the stream emits nothing more: the connection stalls
StreamSilent ==
    /\ stream.state # "idle" /\ ~stream.silent
    /\ stream' = [stream EXCEPT !.silent = TRUE]
    /\ UNCHANGED <<store, now, nwrites, res, lastMeta, metaUploaded, calls>>

NextStream ==
    \/ StreamOpen
    \/ StreamData
    \/ StreamEnd
    \/ StreamError
    \/ StreamSilent

\* The event loop runs every listener whose event the stream emits, and a
\* stream that has not fallen silent does emit 'end' or 'error'.
SpecStream ==
    /\ Init /\ [][NextStream]_vars
    /\ WF_vars(StreamOpen) /\ WF_vars(StreamEnd) /\ WF_vars(StreamError)

----------------------------------------------------------------------------
(* What the claims speak about *)

\* the instant a createFolder call is to store as expiry, from its arguments
\* (res) and the instant of the call (the clock has not moved since)
IntendedExpiry ==
    IF res.expiry.kind = "none" THEN now + 31 * MinutesPerDay
    ELSE IF res.expiry.kind = "date" THEN res.expiry.t
    ELSE ParseISO(res.expiry.s)

\* the blobs stored under <slug>/
Under(slug) == {k \in DOMAIN store : StartsWith(k, slug \o <<"/">>)}

\* the names a listFolderBlobs result holds
ListedNames == {res.list[i].name : i \in 1..Len(res.list)}

\* the first-level folders of the container
FolderSlugs == {SubSeq(k, 1, IndexOf(k, "/") - 1) : k \in DOMAIN store}

\* the folder has a metadata blob, and it parses
ValidFolder(slug) ==
    /\ getFolderMeta(store, slug).ok
    /\ DecodeMeta(getFolderMeta(store, slug).text).ok

\* the folder has a metadata blob, and it does not parse
CorruptFolder(slug) ==
    /\ getFolderMeta(store, slug).ok
    /\ ~DecodeMeta(getFolderMeta(store, slug).text).ok

----------------------------------------------------------------------------
(* Claims *)

\* C1: listFolders called without includeExpired never returns a folder whose
\* stored expiry is at or before the current instant.
C1_DefaultListingExcludesExpired ==
    (res.op = "listFolders" /\ res.ok /\ ~res.includeExpired) =>
        \A i \in 1..Len(res.list) :
            DecodeMeta(res.list[i].meta).ok => DecodeMeta(res.list[i].meta).expiry > now

\* C2: listFolders(slug, includeExpired = true) returns an existing folder
\* whatever its expiry: exactly one entry, holding the folder's metadata.
C2_IncludeExpiredListsFolder ==
    (/\ res.op = "listFolders"
     /\ res.includeExpired
     /\ res.slug # <<>>
     /\ getFolderMeta(store, res.slug).ok) =>
        /\ res.ok
        /\ Len(res.list) = 1
        /\ res.list[1].meta = store[BlobName(res.slug, metafilename)].text

\* C2 witness: an expired folder came back from listFolders(slug, true)
C2_Witness ==
    /\ res.op = "listFolders"
    /\ res.includeExpired
    /\ res.slug # <<>>
    /\ ValidFolder(res.slug)
    /\ DecodeMeta(getFolderMeta(store, res.slug).text).expiry <= now
    /\ Len(res.list) = 1

\* C3: as long as no uploadFile has targeted the reserved name, getFolderMeta(slug)
\* returns exactly the metadata the most recent createFolder of that slug returned.
C3_GetFolderMetaReturnsLatestCreate ==
    ~metaUploaded =>
        /\ \A s \in DOMAIN lastMeta :
              getFolderMeta(store, s) = [ok |-> TRUE, text |-> lastMeta[s]]
        /\ (res.op = "getFolderMeta" /\ res.slug \in DOMAIN lastMeta) =>
              res.ok /\ res.text = lastMeta[res.slug]

\* C3 witness: getFolderMeta answered for a slug that was created twice (two
\* uploads have left one blob, the metadata of the slug)
C3_Witness ==
    /\ res.op = "getFolderMeta"
    /\ res.ok
    /\ ~metaUploaded
    /\ res.slug \in DOMAIN lastMeta
    /\ nwrites >= 2
    /\ Cardinality(DOMAIN store) = 1

\* C4: decoding the text createFolder encodes yields the same field values,
\* whatever characters slug, description and message hold.
C4_MetaRoundTrip ==
    res.op = "createFolder" =>
        LET d == DecodeMeta(res.text)
        IN  /\ d.ok
            /\ d.slug = res.slug
            /\ d.description = res.description
            /\ d.expiry = IntendedExpiry
            /\ d.downloads = 0
            /\ d.message = res.message

\* C5: the result of listFolderBlobs(slug) never contains <slug>/_zwila.md, and
\* with one uploaded file and one metadata object it has exactly one element.
C5_ListingOmitsMetaOnly ==
    res.op = "listFolderBlobs" =>
        /\ BlobName(res.slug, metafilename) \notin ListedNames
        /\ (/\ Cardinality(Under(res.slug)) = 2
            /\ BlobName(res.slug, metafilename) \in Under(res.slug)) =>
               Len(res.list) = 1

\* C6: listFolderBlobs(slug) returns every object stored under <slug>/ whose
\* name is not the reserved metadata object name.
C6_ListingHoldsEveryMember ==
    res.op = "listFolderBlobs" =>
        \A k \in Under(res.slug) :
            k # BlobName(res.slug, metafilename) => k \in ListedNames

\* C7: listFolders(X) returns at most one entry, and that entry's metadata has
\* slug equal to X.
C7_FilteredListingIsTheFolder ==
    (res.op = "listFolders" /\ res.ok /\ res.slug # <<>>) =>
        /\ Len(res.list) <= 1
        /\ \A i \in 1..Len(res.list) :
              /\ DecodeMeta(res.list[i].meta).ok
              /\ DecodeMeta(res.list[i].meta).slug = res.slug

\* C8: when the container holds one folder whose metadata is unparseable and one
\* valid folder, listFolders() does not throw and returns only the valid folder.
C8_CorruptFolderIsolation ==
    (/\ res.op = "listFolders"
     /\ res.slug = <<>>
     /\ Cardinality(FolderSlugs) = 2
     /\ \E v, c \in FolderSlugs : ValidFolder(v) /\ CorruptFolder(c)) =>
        /\ res.ok
        /\ Len(res.list) = 1
        /\ DecodeMeta(res.list[1].meta).ok

\* the value of the line "expiry = ..." of a metadata text, when it has one
ExpiryLines(md) ==
    LET intro == <<"e", "x", "p", "i", "r", "y", " ", "=", " ">>
    IN  {SubSeq(l, Len(intro) + 1, Len(l)) :
            l \in {m \in {Split(md, "\n")[i] : i \in 1..Len(Split(md, "\n"))} :
                      StartsWith(m, intro)}}

\* C9: createFolder without an expiry argument stores the creation instant plus
\* 31 days (date component: today + 31 days); a supplied expiry is stored as given.
C9_DefaultExpiryIs31Days ==
    res.op = "createFolder" =>
        LET stored == ExpiryLines(store[BlobName(res.slug, metafilename)].text)
        IN  /\ Cardinality(stored) = 1
            /\ \A e \in stored :
                  /\ IsISOString(e)
                  /\ res.expiry.kind = "none" =>
                        /\ ParseISO(e) = now + 31 * 24 * 60
                        /\ DatePart(e) = Digits((now \div MinutesPerDay) + 31)
                  /\ res.expiry.kind = "date" => ParseISO(e) = res.expiry.t
                  /\ res.expiry.kind = "string" => e = res.expiry.s

\* C9 witness: a createFolder without expiry has stored now + 31 days
C9_Witness ==
    /\ res.op = "createFolder"
    /\ res.expiry.kind = "none"
    /\ ToISOString(now + 31 * 24 * 60)
          \in ExpiryLines(store[BlobName(res.slug, metafilename)].text)

\* C10: createFolder returns and stores the line +++, the four field lines, the
\* line +++, and then, only when a message is given, a blank line, the message
\* and a final line break.
C10_MetaTextLayout ==
    res.op = "createFolder" =>
        LET preamble ==
                << <<"+", "+", "+">>,
                   <<"s", "l", "u", "g", " ", "=", " ", "'">> \o res.slug \o <<"'">>,
                   <<"d", "e", "s", "c", "r", "i", "p", "t", "i", "o", "n", " ", "=", " ", "'">>
                       \o res.description \o <<"'">>,
                   <<"e", "x", "p", "i", "r", "y", " ", "=", " ">> \o ToISOString(IntendedExpiry),
                   <<"d", "o", "w", "n", "l", "o", "a", "d", "s", " ", "=", " ", "0">>,
                   <<"+", "+", "+">> >>
            expected ==
                IF res.message # <<>>
                THEN Join(preamble \o << <<>>, res.message, <<>> >>, "\n")
                ELSE Join(preamble \o << <<>> >>, "\n")
        IN  /\ res.text = expected
            /\ store[BlobName(res.slug, metafilename)].text = expected

\* C10 witness: a createFolder with a slug and a message has stored its text
C10_Witness ==
    /\ res.op = "createFolder"
    /\ res.slugGiven
    /\ res.message # <<>>
    /\ store[BlobName(res.slug, metafilename)].text = res.text


\* C11: createFolder called without a slug generates one of exactly 21
\* characters of the URL-safe alphabet and uses that one slug both as the
\* prefix of the metadata blob's name and in the slug line of the record; a
\* non-empty slug that is passed is used as it is.
C11_GeneratedSlugIsUsedThroughout ==
    res.op = "createFolder" =>
        /\ res.slugArg = <<>> =>
                /\ Len(res.slug) = 21
                /\ \A i \in 1..Len(res.slug) : res.slug[i] \in UrlSafeAlphabet
        /\ res.slugArg # <<>> => res.slug = res.slugArg
        /\ BlobName(res.slug, metafilename) \in DOMAIN store
        /\ store[BlobName(res.slug, metafilename)].text = res.text
        /\ Split(res.text, "\n")[2] =
                <<"s", "l", "u", "g", " ", "=", " ", "'">> \o res.slug \o <<"'">>
        /\ nwrites = 1 => DOMAIN store = {BlobName(res.slug, metafilename)}

C11_Witness ==
    /\ res.op = "createFolder"
    /\ res.slugArg = <<>>
    /\ res.slug \in NanoidPool
    /\ DOMAIN store = {BlobName(res.slug, metafilename)}
    /\ DecodeMeta(res.text).ok
    /\ DecodeMeta(res.text).slug = res.slug


\* C12: the URL returned by createFolder is
\* https://<account>.blob.core.windows.net/<container>/<slug>/_zwila.md and the
\* one returned by uploadFile is .../<container>/<slug>/<name>, with a literal
\* "/" between slug and name, for every slug and name.
C12_ReturnedUrlIsCanonical ==
    res.op \in {"createFolder", "uploadFile"} =>
        res.url = Https \o Account \o BlobEndpointSuffix \o <<"/">> \o Container
                  \o <<"/">> \o res.slug \o <<"/">>
                  \o (IF res.op = "createFolder" THEN metafilename ELSE res.filename)

C12_Witness ==
    /\ res.op = "uploadFile"
    /\ res.slug = SlugQuote
    /\ res.filename = <<"%", "2", "F">>
    /\ BlobName(res.slug, res.filename) \in DOMAIN store
    /\ Len(res.url) = Len(ContainerUrl) + 1 + Len(BlobName(res.slug, res.filename))


\* C13: getSASUrl requests a read-only token for exactly the blob
\* <slug>/<filename> of the container, valid from ten minutes before the call
\* until minutes (60 when omitted) after it; so for every minutes >= 0 the
\* validity starts strictly before it ends and lasts at least minutes + 10.
C13_SasWindow ==
    res.op = "getSASUrl" =>
        LET m == IF res.minutes.given THEN res.minutes.m ELSE 60
        IN  /\ res.sas.permissions = <<"r">>
            /\ res.sas.containerName = Container
            /\ res.sas.blobName = res.slug \o <<"/">> \o res.filename
            /\ res.sas.startsOn = res.at - 10
            /\ res.sas.expiresOn = res.at2 + m
            /\ m >= 0 => /\ res.sas.startsOn < res.sas.expiresOn
                          /\ res.sas.expiresOn - res.sas.startsOn >= m + 10

C13_Witness ==
    /\ res.op = "getSASUrl"
    /\ res.minutes = GivenMinutes(0)
    /\ res.at2 = res.at + 1
    /\ res.sas.expiresOn - res.sas.startsOn = 11


\* the part of a URL before the "?" and the part after it
UrlPath(url) == Split(url, "?")[1]
UrlQuery(url) == IF Len(Split(url, "?")) < 2 THEN <<>> ELSE Split(url, "?")[2]

\* the value of the query parameter of this name, <<>> when there is none
QueryParam(url, name) ==
    LET pairs == Split(UrlQuery(url), "&")
        hits == SelectSeq(pairs, LAMBDA p : StartsWith(p, Chars(name) \o <<"=">>))
    IN  IF hits = <<>> THEN <<>>
        ELSE SubSeq(hits[1], Len(Chars(name)) + 2, Len(hits[1]))

SasParamNames == {"sv", "st", "se", "sr", "sp", "sig"}

\* the URL the call in res would have returned had it been given these minutes
SasUrlWith(minutes) == getSASUrl(res.slug, res.filename, minutes, res.at, res.at2).url

\* C14 (as stated): the string getSASUrl returns is the canonical URL, "?", and
\* a query with the read-permission marker and a signature; two calls for the
\* same slug and filename that differ only in minutes return URLs with the
\* same path and permission marker that differ in the expiry parameter only.
C14_OnlyExpiryDiffers ==
    res.op = "getSASUrl" =>
        /\ UrlPath(res.url) = Https \o Account \o BlobEndpointSuffix \o <<"/">>
                \o Container \o <<"/">> \o res.slug \o <<"/">> \o res.filename
        /\ QueryParam(res.url, "sp") = <<"r">>
        /\ QueryParam(res.url, "sig") # <<>>
        /\ \A minutes \in SasMinutes :
                /\ UrlPath(SasUrlWith(minutes)) = UrlPath(res.url)
                /\ \A name \in SasParamNames \ {"se"} :
                        QueryParam(SasUrlWith(minutes), name) = QueryParam(res.url, name)

\* C14 (amended): as above, but the two URLs differ in the expiry parameter
\* and in the signature, which covers the expiry; every other parameter and
\* the path are the same.
C14_ExpiryAndSignatureDiffer ==
    res.op = "getSASUrl" =>
        /\ UrlPath(res.url) = Https \o Account \o BlobEndpointSuffix \o <<"/">>
                \o Container \o <<"/">> \o res.slug \o <<"/">> \o res.filename
        /\ QueryParam(res.url, "sp") = <<"r">>
        /\ QueryParam(res.url, "sig") # <<>>
        /\ \A minutes \in SasMinutes :
                /\ UrlPath(SasUrlWith(minutes)) = UrlPath(res.url)
                /\ \A name \in SasParamNames \ {"se", "sig"} :
                        QueryParam(SasUrlWith(minutes), name) = QueryParam(res.url, name)
                /\ MinutesValue(minutes) # MinutesValue(res.minutes) =>
                        /\ QueryParam(SasUrlWith(minutes), "se") # QueryParam(res.url, "se")
                        /\ QueryParam(SasUrlWith(minutes), "sig") # QueryParam(res.url, "sig")

C14_Witness ==
    /\ res.op = "getSASUrl"
    /\ res.minutes = GivenMinutes(5)
    /\ res.filename = <<"a", " ", "b">>
    /\ QueryParam(res.url, "se") = ToISOString(res.at2 + 5)
    /\ QueryParam(SasUrlWith(GivenMinutes(90)), "se") = ToISOString(res.at2 + 90)
    /\ QueryParam(SasUrlWith(GivenMinutes(90)), "sig") # QueryParam(res.url, "sig")


\* C15: getFolderMeta(slug) for a slug whose <slug>/_zwila.md does not exist
\* fails with the store's not-found error, returns no record (not an empty or
\* default one), and leaves the container as it was.
C15_MissingMetaIsNotFound ==
    [][ (res'.op = "getFolderMeta"
            /\ res'.slug \o <<"/">> \o metafilename \notin DOMAIN store)
        => /\ ~res'.ok
           /\ res'.error = "BlobNotFound"
           /\ res'.text = <<>>
           /\ store' = store ]_vars

C15_Witness ==
    /\ res.op = "getFolderMeta"
    /\ ~res.ok
    /\ res.error = BlobNotFound
    /\ Under(res.slug) # {}
    /\ BlobName(res.slug, metafilename) \notin DOMAIN store


\* C16: the content type uploadFile stores is the type found in the file's
\* bytes whenever one is found; otherwise the extension table's type for
\* .txt, .xml, .csv and .md; otherwise the empty string, never undefined.
C16_ContentTypeInference ==
    res.op = "uploadFile" =>
        LET ext == extname(res.path)
            stored == store[BlobName(res.slug, res.filename)].ctype
        IN  /\ stored # "undefined"
            /\ stored = IF res.sniff # "undefined" THEN res.sniff
                        ELSE IF ext = <<"t", "x", "t">> THEN "text/plain"
                        ELSE IF ext = <<"x", "m", "l">> THEN "text/xml"
                        ELSE IF ext = <<"c", "s", "v">> THEN "text/csv"
                        ELSE IF ext = <<"m", "d">> THEN "text/markdown; charset=UTF-8"
                        ELSE ""


\* C17: the metadata blob is written by createFolder alone: whatever is stored
\* at <slug>/_zwila.md is a text some createFolder call for that slug wrote,
\* and no uploadFile creates or overwrites it, whatever its target name.
C17_MetaWrittenByCreateFolderOnly ==
    \A k \in DOMAIN store :
        EndsWith(k, <<"/">> \o metafilename) =>
            LET slug == SubSeq(k, 1, Len(k) - Len(metafilename) - 1)
            IN  /\ slug \in DOMAIN lastMeta
                /\ store[k].text = lastMeta[slug]
                /\ store[k].ctype = MetaContentType


\* the folders a listFolders call with this slug argument visits
Candidates(slug) == {f \in FolderSlugs : slug = <<>> \/ f = slug}

\* C18: when the metadata of any folder listFolders visits cannot be fetched
\* (a prefix with members but no metadata blob), the call rejects with that
\* error and returns no partial list, also when other folders are valid.
C18_MetaFetchErrorPropagates ==
    (/\ res.op = "listFolders"
     /\ \E f \in Candidates(res.slug) : BlobName(f, metafilename) \notin DOMAIN store)
    => /\ ~res.ok
       /\ res.error = "BlobNotFound"
       /\ res.list = <<>>

C18_Witness ==
    /\ res.op = "listFolders"
    /\ res.slug = <<>>
    /\ \E f \in Candidates(res.slug) : BlobName(f, metafilename) \notin DOMAIN store
    /\ \E g \in Candidates(res.slug) : ValidFolder(g)
    /\ ~res.ok


\* C19: two createFolder calls for the same slug that overlap end in
\* last-write-wins: each call makes a single metadata write, the record stored
\* in the end is the complete record of exactly one of them (the one stored
\* last), and both calls complete successfully: neither is made to fail by
\* the other.
C19_LastWriteWins ==
    /\ \A c \in Callers : calls[c].pc = "done" => calls[c].ok
    /\ nwrites = Cardinality({c \in Callers : calls[c].pc \in {"stored", "done"}})
    /\ \A c, d \in Callers :
            (/\ c # d
             /\ calls[c].pc = "done" /\ calls[d].pc = "done"
             /\ calls[c].slug = calls[d].slug
             /\ calls[c].seq < calls[d].seq)
            => store[calls[d].slug \o <<"/">> \o metafilename].text = calls[d].md

C19_Witness ==
    /\ calls["c1"].pc = "done" /\ calls["c2"].pc = "done"
    /\ calls["c1"].slug = calls["c2"].slug
    /\ calls["c1"].md # calls["c2"].md
    /\ calls["c1"].seq = 2
    /\ res.text = calls["c2"].md
    /\ store[createFolderTarget(calls["c1"].slug)].text = calls["c1"].md


\* C20: getSASUrl consults neither the container nor the folder's expiry: it
\* returns a signed URL for slug/filename also when the folder has expired or
\* has no metadata or the blob does not exist, and it writes nothing.
C20_SasIgnoresStore ==
    [][ res'.op = "getSASUrl"
        => /\ store' = store
           /\ res'.ok
           /\ UrlPath(res'.url) = Https \o Account \o BlobEndpointSuffix \o <<"/">>
                   \o Container \o <<"/">> \o res'.slug \o <<"/">> \o res'.filename
           /\ QueryParam(res'.url, "sp") = <<"r">>
           /\ QueryParam(res'.url, "se") = ToISOString(now' + MinutesValue(res'.minutes))
           /\ QueryParam(res'.url, "sig") # <<>> ]_vars

C20_Witness ==
    /\ res.op = "getSASUrl"
    /\ res.ok
    /\ QueryParam(res.url, "sig") # <<>>
    /\ BlobName(res.slug, res.filename) \notin DOMAIN store
    /\ ValidFolder(res.slug)
    /\ DecodeMeta(getFolderMeta(store, res.slug).text).expiry <= now


\* C21: createFolder(slug, ...) writes exactly one blob, <slug>/_zwila.md, and
\* uploadFile(src, slug, name) exactly one, <slug>/<name>; every other blob, of
\* this folder and of the others, is as before; hasContainer, getFolderMeta,
\* listFolderBlobs and listFolders change no blob at all.
C21_WritesTouchOneBlob ==
    [][ LET written == res'.slug \o <<"/">>
                       \o (IF res'.op = "createFolder" THEN metafilename
                           ELSE res'.filename)
        IN  /\ res'.op \in {"createFolder", "uploadFile"} =>
                    /\ DOMAIN store' = DOMAIN store \cup {written}
                    /\ store'[written].text = res'.text
                    /\ \A k \in DOMAIN store \ {written} : store'[k] = store[k]
            /\ res'.op \in {"hasContainer", "getFolderMeta", "listFolderBlobs",
                             "listFolders"} => store' = store ]_vars

C21_Witness ==
    /\ res.op = "uploadFile"
    /\ nwrites = 2
    /\ Cardinality(DOMAIN store) = 2
    /\ BlobName(res.slug, res.filename) \in DOMAIN store
    /\ \E k \in DOMAIN store : ~StartsWith(k, res.slug \o <<"/">>)


\* C22: no operation deletes a blob: the set of stored names never shrinks, so
\* the metadata and the members of a folder whose expiry has passed stay in
\* the container and getFolderMeta and listFolderBlobs still return them.
C22_NothingIsDeleted ==
    [][ /\ DOMAIN store \subseteq DOMAIN store'
        /\ (res'.op = "getFolderMeta"
                /\ res'.slug \o <<"/">> \o metafilename \in DOMAIN store)
            => /\ res'.ok
               /\ res'.text = store[res'.slug \o <<"/">> \o metafilename].text
        /\ res'.op = "listFolderBlobs"
            => \A k \in DOMAIN store :
                   (StartsWith(k, res'.slug \o <<"/">>) /\ ~Includes(k, metafilename))
                   => \E i \in 1..Len(res'.list) : res'.list[i].name = k ]_vars

C22_Witness ==
    /\ res.op = "listFolderBlobs"
    /\ ValidFolder(res.slug)
    /\ DecodeMeta(getFolderMeta(store, res.slug).text).expiry < now
    /\ Len(res.list) = 1
    /\ res.list[1].name \in DOMAIN store


\* C23: for every metadata blob createFolder has written at <S>/_zwila.md, the
\* slug field encoded in the record equals S, after any sequence of
\* createFolder calls.
C23_RecordSlugIsKeyPrefix ==
    \A S \in DOMAIN lastMeta :
        (/\ BlobName(S, metafilename) \in DOMAIN store
         /\ store[BlobName(S, metafilename)].text = lastMeta[S])
        => /\ DecodeMeta(store[BlobName(S, metafilename)].text).ok
           /\ DecodeMeta(store[BlobName(S, metafilename)].text).slug = S


\* the prefixes a listFolders call with this slug argument visits, in the
\* order the container yields them
VisitedPrefixes(slug) ==
    SelectSeq(listBlobsByHierarchy(store, <<>>),
              LAMBDA item : /\ item.kind = "prefix"
                            /\ (slug = <<>> \/ item.name = slug \o <<"/">>))

\* C24: the result of listFolders is ordered like the container's first-level
\* prefix listing: at most one entry per prefix, in the order the container
\* yields the prefixes; and the folders are processed one after another: the
\* metadata of the next folder is not requested before the member listing of
\* the current one.
C24_ListingFollowsPrefixOrder ==
    res.op = "listFolders" =>
        LET visited == VisitedPrefixes(res.slug)
            reqs == Tail(res.requests)
        IN  /\ res.ok =>
                /\ Len(res.list) = Len(visited)
                /\ \A i \in 1..Len(visited) :
                        /\ res.list[i].meta = store[visited[i].name \o metafilename].text
                        /\ \A j \in 1..Len(res.list[i].blobs) :
                                StartsWith(res.list[i].blobs[j].name, visited[i].name)
                /\ Len(reqs) = 2 * Len(visited)
            /\ Head(res.requests) = [op |-> "list", name |-> <<>>]
            /\ \A n \in 1..Len(reqs) :
                    LET i == (n + 1) \div 2
                    IN  /\ i <= Len(visited)
                        /\ reqs[n] = IF n % 2 = 1
                                      THEN [op |-> "download",
                                            name |-> visited[i].name \o metafilename]
                                      ELSE [op |-> "list", name |-> visited[i].name]

C24_Witness ==
    /\ res.op = "listFolders"
    /\ res.ok
    /\ Len(res.list) = 2
    /\ res.list[1].meta # res.list[2].meta
    /\ Len(res.requests) = 5
    /\ StrLess(res.requests[2].name, res.requests[4].name)


\* the index of the first 'end' or 'error' among the events, 0 when none
FirstSettling(events) ==
    IF \E i \in 1..Len(events) : events[i].type # "data"
    THEN CHOOSE i \in 1..Len(events) :
            /\ events[i].type # "data"
            /\ \A j \in 1..(i - 1) : events[j].type = "data"
    ELSE 0

\* the characters of the data events among the first n events, in order
RECURSIVE TextOfData(_, _)
TextOfData(events, n) ==
    IF n = 0 THEN <<>>
    ELSE TextOfData(events, n - 1)
         \o (IF events[n].type = "data"
             THEN [i \in 1..Len(events[n].data) |-> CharOrder[events[n].data[i]]]
             ELSE <<>>)

\* C26: streamToString settles exactly once for any sequence of stream events:
\* if 'end' comes before any 'error' it resolves with the concatenation of the
\* 'data' chunks received until then, in arrival order; if 'error' comes first
\* it rejects with that error; later events do not change the outcome.
C26_SettlesOnce ==
    stream.state # "idle" =>
        LET n == FirstSettling(stream.events)
        IN  IF n = 0 THEN stream.state = "pending"
            ELSE IF stream.events[n].type = "end"
            THEN /\ stream.state = "resolved"
                 /\ stream.value = TextOfData(stream.events, n)
                 /\ stream.error = ""
            ELSE /\ stream.state = "rejected"
                 /\ stream.error = stream.events[n].error
                 /\ stream.value = <<>>

C26_Witness ==
    /\ stream.state = "resolved"
    /\ Len(stream.events) = 4
    /\ stream.events[1].type = "data" /\ stream.events[2].type = "end"
    /\ stream.events[3].type = "data" /\ stream.events[4].type = "error"
    /\ stream.value = BufferToString(stream.events[1].data)
    /\ Len(stream.chunks) = 2


\* C25: no read blocks for ever: every call of streamToString (and so of
\* getFolderMeta and listFolders) that is pending eventually resolves or
\* rejects, also when the body stream emits neither 'end' nor 'error'.
C25_EveryReadSettles ==
    (stream.state = "pending") ~> (stream.state \in {"resolved", "rejected"})

====
